---- MODULE Spec2Model ----
(***************************************************************************)
(* TakeoutExifOrganizer: the phased pipeline of MediaProcessor.process     *)
(* (Discovery, Metadata Extraction, Resolution, Execution) over the        *)
(* SQLite store of PersistenceManager, with the merge rules, the target    *)
(* path derivation of FileOrganizer and the tag payload of MediaMetadata.  *)
(*                                                                         *)
(* Optional values (Python None / a value) are <<>> / <<v>>.               *)
(* Timestamps are whole seconds since the epoch; GPS coordinates are in    *)
(* units of 1e-5 degree.                                                   *)
(***************************************************************************)
EXTENDS Integers, Sequences, FiniteSets, TLC

VARIABLES
    tz,          \* local UTC offset in seconds of the machine running the tool
    source,      \* the source tree: path -> name, mtime, embedded tags, sidecar
    dry_run,     \* MediaProcessor.dry_run of the current invocation
    batch_size,  \* MediaProcessor.batch_size
    files,       \* table files: the rows, row id = position (AUTOINCREMENT)
    metadata,    \* table metadata: <<file_id, source>> -> MediaMetadata
    disk,        \* destination tree: existing path -> file (bytes, tags, mtime)
    pc,          \* position of process(): idle, discovery, ..., done
    page,        \* rows fetched by get_files_by_status in the current loop turn
    idx,         \* index in page (or in the walk) of the file being handled
    step,        \* commit point reached inside the per-file block
    media_map,   \* media_metadata_map returned by read_metadata_batch
    tasks,       \* Execution page: id -> state of its _execute_single_file future
    write_ops,   \* Execution page: write_ops list
    runs,        \* number of invocations of process() started so far
    first_complete, \* the first invocation that ran to "Processing complete.", or 0
    copies,      \* byte copies performed by the current invocation
    writes,      \* tag payloads handed to write_metadata_batch, this invocation
    call,        \* a pure function under check: its arguments
    ret,         \* ... and its result
    reads        \* this invocation's read_metadata_batch calls: the rows of each

vars == <<tz, source, dry_run, batch_size, files, metadata, disk, pc, page, idx,
          step, media_map, tasks, write_ops, runs, first_complete, copies, writes,
          call, ret, reads>>

pipeline_vars == <<source, dry_run, batch_size, files, metadata, disk, pc, page,
                   idx, step, media_map, tasks, write_ops, runs, first_complete,
                   copies, writes, reads>>

----------------------------------------------------------------------------
(* Bounds of the model *)

NFiles == 2
MaxRuns == 2
MaxBatch == 2

----------------------------------------------------------------------------
(* Values *)

None == <<>>
Some(v) == <<v>>
Val(o) == o[1]

GpsData(lat, lon, alt) == [latitude |-> lat, longitude |-> lon, altitude |-> alt]

MediaMetadata(ts, people, gps, url) ==
    [timestamp |-> ts, people |-> people, gps |-> gps, url |-> url]

EmptyMetadata == MediaMetadata(None, None, None, None)

\* Python truthiness of an optional str / float (None, "" and 0 are falsy)
TruthyStr(o) == o /= None /\ Val(o) /= ""
TruthyNum(o) == o /= None /\ Val(o) /= 0

----------------------------------------------------------------------------
(* Local calendar: datetime.fromtimestamp(ts) *)

fromtimestamp(ts) ==
    LET days == (ts + tz) \div 86400
        z    == days + 719468
        era  == z \div 146097
        doe  == z - era * 146097
        yoe  == (doe - doe \div 1460 + doe \div 36524 - doe \div 146096) \div 365
        doy  == doe - (365 * yoe + yoe \div 4 - yoe \div 100)
        mp   == (5 * doy + 2) \div 153
        m    == IF mp < 10 THEN mp + 3 ELSE mp - 9
    IN  [year |-> yoe + era * 400 + (IF m <= 2 THEN 1 ELSE 0), month |-> m]

MinValidYear == 1999

_is_valid_timestamp_strict(timestamp) ==
    IF timestamp = None THEN FALSE
    ELSE fromtimestamp(Val(timestamp)).year > MinValidYear

_is_valid_timestamp(timestamp) ==
    IF timestamp = None THEN FALSE
    ELSE fromtimestamp(Val(timestamp)).year >= MinValidYear

_determine_timestamp(mtime, media_metadata, json_metadata) ==
    IF _is_valid_timestamp(media_metadata.timestamp)
    THEN Val(media_metadata.timestamp)
    ELSE IF _is_valid_timestamp(json_metadata.timestamp)
         THEN Val(json_metadata.timestamp)
         ELSE mtime

_merge_metadata(mtime, media_metadata, json_metadata) ==
    MediaMetadata(
        Some(_determine_timestamp(mtime, media_metadata, json_metadata)),
        IF json_metadata.people /= None THEN json_metadata.people
                                        ELSE media_metadata.people,
        IF media_metadata.gps /= None THEN media_metadata.gps
                                      ELSE json_metadata.gps,
        IF TruthyStr(media_metadata.url) THEN media_metadata.url
                                         ELSE json_metadata.url)

----------------------------------------------------------------------------
(* media_type.py: the capability table *)

Lower(suffix) ==
    CASE suffix = ".JPG" -> ".jpg"
      [] suffix \in {".MP", ".Mp", ".mP"} -> ".mp"
      [] suffix = ".MP4" -> ".mp4"
      [] OTHER           -> suffix

MediaType(exif, iptc, xmp, qt, recognized) ==
    [supports_exif |-> exif, supports_iptc |-> iptc, supports_xmp |-> xmp,
     supports_qt |-> qt, recognized |-> recognized]

UNKNOWN == MediaType(FALSE, FALSE, FALSE, FALSE, FALSE)

get_media_type(suffix) ==
    LET ext == Lower(suffix) IN
    CASE ext \in {".jpg", ".jpeg", ".jpe", ".png", ".tif", ".tiff"}
            -> MediaType(TRUE, TRUE, TRUE, FALSE, TRUE)
      [] ext \in {".heic", ".heif", ".webp"}
            -> MediaType(TRUE, FALSE, TRUE, FALSE, TRUE)
      [] ext \in {".mp4", ".mov", ".m4v", ".3gp", ".mp"}
            -> MediaType(FALSE, FALSE, TRUE, TRUE, TRUE)
      [] ext = ".gif"
            -> MediaType(FALSE, FALSE, TRUE, FALSE, TRUE)
      [] ext \in {".bmp", ".avi", ".wmv", ".mkv"}
            -> MediaType(FALSE, FALSE, FALSE, FALSE, TRUE)
      [] OTHER -> UNKNOWN

supports_write(mt) ==
    mt.supports_exif \/ mt.supports_iptc \/ mt.supports_xmp \/ mt.supports_qt

----------------------------------------------------------------------------
(* file_organizer.py: target path and collision probing.  A path under the  *)
(* destination root is [dir, stem, suffix].                                 *)

\* a file name is [stem, suffix]; the stem is kept as the pieces that the
\* string tests of the code look at ("-edited" at its end), joined for paths
RECURSIVE Join(_)
Join(tokens) == IF tokens = <<>> THEN "" ELSE Head(tokens) \o Join(Tail(tokens))

endswith(tokens, piece) == tokens /= <<>> /\ tokens[Len(tokens)] = piece

Pad2(n) == IF n < 10 THEN "0" \o ToString(n) ELSE ToString(n)

\* the rename without .lower()
get_target_path_exact(timestamp, name) ==
    LET dt == fromtimestamp(timestamp) IN
    [dir    |-> ToString(dt.year) \o "/" \o Pad2(dt.month),
     stem   |-> Join(name.stem),
     suffix |-> IF name.suffix = ".mp" THEN ".mp4" ELSE name.suffix]

get_target_path(timestamp, name) ==
    LET dt == fromtimestamp(timestamp) IN
    [dir    |-> ToString(dt.year) \o "/" \o Pad2(dt.month),
     stem   |-> Join(name.stem),
     suffix |-> IF Lower(name.suffix) = ".mp" THEN ".mp4" ELSE name.suffix]

RECURSIVE probe(_, _, _)
probe(existing, target_path, counter) ==
    LET new_path == [target_path EXCEPT
                        !.stem = target_path.stem \o "_" \o ToString(counter)]
    IN  IF new_path \notin existing THEN new_path
        ELSE probe(existing, target_path, counter + 1)

\* the probe starting with counter = 2
resolve_collision_from_two(existing, target_path) ==
    IF target_path \notin existing THEN target_path
    ELSE probe(existing, target_path, 2)

resolve_collision(existing, target_path) ==
    IF target_path \notin existing THEN target_path
    ELSE probe(existing, target_path, 1)

----------------------------------------------------------------------------
(* media_metadata.py: tag payload and approximate equality *)

\* to_tags, by field group: the date, GPS, people and URL tags it emits
to_tags(md, mt) ==
    [date   |-> IF md.timestamp /= None
                   /\ (mt.supports_qt \/ mt.supports_xmp \/ mt.supports_exif)
                THEN md.timestamp ELSE None,
     gps    |-> IF md.gps /= None
                   /\ (mt.supports_qt \/ mt.supports_exif \/ mt.supports_xmp)
                THEN md.gps ELSE None,
     people |-> IF md.people /= None /\ (mt.supports_xmp \/ mt.supports_iptc)
                THEN md.people ELSE None,
     url    |-> IF TruthyStr(md.url) /\ (mt.supports_xmp \/ mt.supports_exif)
                THEN md.url ELSE None]

NoTags == [date |-> None, gps |-> None, people |-> None, url |-> None]

Abs(x) == IF x < 0 THEN -x ELSE x

Count(x, seq) == Cardinality({i \in DOMAIN seq : seq[i] = x})

\* sorted(p1) == sorted(p2)
SameSorted(p1, p2) ==
    /\ Len(p1) = Len(p2)
    /\ \A i \in DOMAIN p1 : Count(p1[i], p1) = Count(p1[i], p2)

\* field-by-field equality, without the tolerances
is_identical_exact(self, other) == self = other

is_identical(self, other) ==
    /\ (self.timestamp = None) = (other.timestamp = None)
    /\ (self.timestamp /= None /\ other.timestamp /= None)
          => ~ (Abs(Val(self.timestamp) - Val(other.timestamp)) > 1)
    /\ (self.gps = None) = (other.gps = None)
    /\ (self.gps /= None /\ other.gps /= None)
          => /\ ~ (Abs(Val(self.gps).latitude - Val(other.gps).latitude) > 10)
             /\ ~ (Abs(Val(self.gps).longitude - Val(other.gps).longitude) > 10)
    /\ (self.people = None) = (other.people = None)
    /\ (self.people /= None /\ other.people /= None)
          => SameSorted(Val(self.people), Val(other.people))
    /\ self.url = other.url

----------------------------------------------------------------------------
(* The source tree the tool is pointed at and the Tag I/O collaborator *)

\* the paths under the source root, in the order os.walk yields them
Files == 1 .. NFiles

Paths == DOMAIN source

Gps1 == GpsData(3777490, -12241940, None)
Gps2 == GpsData(4871000, 229000, Some(35))

EmbeddedValid ==
    MediaMetadata(Some(1641038400), Some(<<"Alice", "Bob">>), Some(Gps1),
                  Some("http://original.com"))
EmbeddedOld == MediaMetadata(Some(631195200), None, None, None)

\* the content of a Takeout sidecar: photoTakenTime.timestamp, geoData
\* (altitude 0 when unknown), url, and the names of the people list
SidecarJson(ts, geo, url, people) ==
    [photoTakenTime |-> ts, geoData |-> geo, url |-> url, people |-> people]

SidecarFull ==
    SidecarJson(Some(1609502400),
                Some([latitude |-> 4871000, longitude |-> 229000, altitude |-> 35]),
                Some("http://json.com"),
                Some(<<>>))

\* a sidecar file whose text is not JSON
SidecarMalformed == [text |-> "{ photoTakenTime: "]

\* json.load accepts the text
IsJson(data) == "text" \notin DOMAIN data

\* str(e) of the exception json.load raises otherwise
JSONDecodeError == "Expecting property name enclosed in double quotes"

\* MetadataHandler.parse_json_sidecar with its _extract_*_from_json helpers;
\* json.load raising ends in `except Exception: return {}`
parse_json_sidecar(data) ==
    IF ~IsJson(data) THEN EmptyMetadata
    ELSE
    MediaMetadata(
        data.photoTakenTime,
        IF data.people = None THEN None
        ELSE LET people_names == SelectSeq(Val(data.people), LAMBDA n : n /= "")
             IN  IF people_names /= <<>> THEN Some(people_names) ELSE None,
        IF data.geoData = None THEN None
        ELSE LET geo == Val(data.geoData) IN
             IF geo.latitude = 0 /\ geo.longitude = 0 THEN None
             ELSE Some(GpsData(geo.latitude, geo.longitude,
                               IF geo.altitude /= 0 THEN Some(geo.altitude)
                                                    ELSE None)),
        IF TruthyStr(data.url) THEN data.url ELSE None)

SourceFiles ==
    [name     : {[stem |-> <<"photo">>, suffix |-> ".jpg"]},
     mtime    : {1577880000},
     embedded : {EmbeddedValid, EmbeddedOld},
     sidecar  : {None, Some(SidecarFull)}]

\* what an ExifTool write of `tags` leaves in a file holding `current`
\* (people are read back deduplicated and sorted, an empty list as absent)
set_tags(current, tags) ==
    MediaMetadata(
        IF tags.date /= None THEN tags.date ELSE current.timestamp,
        IF tags.people = None THEN current.people
        ELSE IF Val(tags.people) = <<>> THEN None
        ELSE Some(SelectSeq(<<"Alice", "Bob", "Charlie">>,
                            LAMBDA n : Count(n, Val(tags.people)) > 0)),
        IF tags.gps /= None THEN tags.gps ELSE current.gps,
        IF tags.url /= None THEN tags.url ELSE current.url)

\* MetadataHandler.extract_metadata: the embedded metadata of an existing file
extract_metadata(path) == disk[path].tags

----------------------------------------------------------------------------
(* persistence_manager.py *)

Row(source_path, status, phase, target_path, error_message) ==
    [source_path |-> source_path, status |-> status, phase |-> phase,
     target_path |-> target_path, error_message |-> error_message]

Put(f, k, v) == [x \in DOMAIN f \cup {k} |-> IF x = k THEN v ELSE f[x]]

\* initialize(): CREATE TABLE IF NOT EXISTS keeps what the store holds
initialize_recreating(table) == [k \in {} |-> table[k]]

initialize(table) == table

\* the row ids holding source_path `path`
rows_of(table, path) == {i \in DOMAIN table : table[i].source_path = path}

\* INSERT OR REPLACE instead of INSERT
add_file_replacing(table, path) ==
    IF rows_of(table, path) = {}
    THEN [table |-> Append(table, Row(path, "NEW", "DISCOVERY", None, None)),
          id    |-> Len(table) + 1]
    ELSE LET id == CHOOSE i \in rows_of(table, path) : TRUE
         IN  [table |-> [table EXCEPT ![id] =
                            Row(path, "NEW", "DISCOVERY", None, None)],
              id    |-> id]

\* no UNIQUE constraint on source_path
add_file_duplicating(table, path) ==
    [table |-> Append(table, Row(path, "NEW", "DISCOVERY", None, None)),
     id    |-> Len(table) + 1]

\* INSERT; on IntegrityError (source_path UNIQUE) the id of the existing row
add_file(table, path) ==
    IF rows_of(table, path) = {}
    THEN [table |-> Append(table, Row(path, "NEW", "DISCOVERY", None, None)),
          id    |-> Len(table) + 1]
    ELSE [table |-> table, id |-> CHOOSE i \in rows_of(table, path) : TRUE]

\* UPDATE files SET status = ? only
update_status_only(table, id, status, phase, error) ==
    [table EXCEPT ![id].status = status]

update_status(table, id, status, phase, error) ==
    [table EXCEPT ![id] = Row(table[id].source_path, status, phase,
                              table[id].target_path, error)]

\* an UPDATE that matches no row
update_target_path_lost(table, id, target_path) == table

update_target_path(table, id, target_path) ==
    [table EXCEPT ![id].target_path = Some(target_path)]

save_metadata(table, id, src, md) == Put(table, <<id, src>>, md)

\* the source file a row stands for
file_of(id) == source[files[id].source_path]

get_metadata(id, src) ==
    IF <<id, src>> \in DOMAIN metadata THEN Some(metadata[<<id, src>>]) ELSE None

OrElseEmpty(o) == IF o = None THEN EmptyMetadata ELSE Val(o)

get_files_by_status_retrying(status, limit) ==
    LET ids  == [i \in 1 .. Len(files) |-> i]
        hits == SelectSeq(ids, LAMBDA i : files[i].status \in {status, "FAILED"})
    IN  SubSeq(hits, 1, IF Len(hits) < limit THEN Len(hits) ELSE limit)

\* the SELECT without its LIMIT
get_files_by_status_unlimited(status, limit) ==
    LET ids == [i \in 1 .. Len(files) |-> i]
    IN  SelectSeq(ids, LAMBDA i : files[i].status = status)

get_files_by_status(status, limit) ==
    LET ids  == [i \in 1 .. Len(files) |-> i]
        hits == SelectSeq(ids, LAMBDA i : files[i].status = status)
    IN  SubSeq(hits, 1, IF Len(hits) < limit THEN Len(hits) ELSE limit)

----------------------------------------------------------------------------
(* media_processor.py: process() and its four phases *)

max_workers == 2

Range(seq) == {seq[i] : i \in DOMAIN seq}

NoTasks == [f \in {} |-> "queued"]

\* the locals of process() are gone when the process ends or is killed
ForgetLocals ==
    /\ page' = <<>>
    /\ idx' = 0
    /\ step' = "none"
    /\ media_map' = {}
    /\ tasks' = NoTasks
    /\ write_ops' = <<>>

\* "-edited" anywhere in the stem instead of at its end
_should_process_any_edited(name) ==
    /\ \A i \in DOMAIN name.stem : name.stem[i] /= "-edited"
    /\ get_media_type(name.suffix).recognized

_should_process(name) ==
    /\ ~ endswith(name.stem, "-edited")
    /\ get_media_type(name.suffix).recognized

\* next file of the page, or back to the `while True` fetch
NextInPage(first_step) ==
    IF idx < Len(page)
    THEN /\ idx' = idx + 1
         /\ step' = first_step
         /\ page' = page
    ELSE /\ idx' = 0
         /\ step' = "fetch"
         /\ page' = <<>>

\* an invocation that sends the rows left TARGET_RESOLVED through Resolution
\* again
StartRun_reresolving ==
    /\ pc \in {"idle", "done"}
    /\ runs < MaxRuns
    /\ runs' = runs + 1
    /\ dry_run' \in BOOLEAN
    /\ pc' = "discovery"
    /\ idx' = 1
    /\ copies' = 0
    /\ writes' = 0
    /\ reads' = <<>>
    /\ files' = [id \in DOMAIN files |->
                    IF files[id].status = "TARGET_RESOLVED"
                    THEN Row(files[id].source_path, "METADATA_READ",
                             "METADATA_READ", files[id].target_path, None)
                    ELSE files[id]]
    /\ metadata' = initialize(metadata)
    /\ UNCHANGED <<tz, source, batch_size, disk, page, step,
                   media_map, tasks, write_ops, first_complete, call, ret>>

StartRun ==
    /\ pc \in {"idle", "done"}
    /\ runs < MaxRuns
    /\ runs' = runs + 1
    /\ dry_run' \in BOOLEAN
    /\ pc' = "discovery"
    /\ idx' = 1
    /\ copies' = 0
    /\ writes' = 0
    /\ reads' = <<>>
    /\ files' = initialize(files)
    /\ metadata' = initialize(metadata)
    /\ UNCHANGED <<tz, source, batch_size, disk, page, step,
                   media_map, tasks, write_ops, first_complete, call, ret>>

Discover ==
    /\ pc = "discovery"
    /\ idx \in Paths
    /\ files' = IF _should_process(source[idx].name)
                THEN add_file(files, idx).table
                ELSE files
    /\ idx' = idx + 1
    /\ UNCHANGED <<tz, source, dry_run, batch_size, metadata, disk, pc, page, step,
                   media_map, tasks, write_ops, runs, first_complete, copies, writes,
                   call, ret, reads>>

DiscoveryDone ==
    /\ pc = "discovery"
    /\ idx = Len(source) + 1
    /\ pc' = "extraction"
    /\ step' = "fetch"
    /\ idx' = 0
    /\ UNCHANGED <<tz, source, dry_run, batch_size, files, metadata, disk, page,
                   media_map, tasks, write_ops, runs, first_complete, copies, writes,
                   call, ret, reads>>

\* Extraction that reads one page and goes on to Resolution
ExtractionFetch_once ==
    /\ pc = "extraction"
    /\ step = "fetch"
    /\ LET fetched == get_files_by_status("NEW", batch_size) IN
       IF fetched = <<>> \/ reads /= <<>>
       THEN /\ pc' = "resolution"
            /\ UNCHANGED <<page, idx, step, media_map, reads>>
       ELSE /\ \E batch_ok \in BOOLEAN :
                 media_map' = IF batch_ok THEN Range(fetched) ELSE {}
            /\ reads' = Append(reads, Range(fetched))
            /\ page' = fetched
            /\ idx' = 1
            /\ step' = "media"
            /\ pc' = pc
    /\ UNCHANGED <<tz, source, dry_run, batch_size, files, metadata, disk, tasks,
                   write_ops, runs, first_complete, copies, writes, call, ret>>

ExtractionFetch ==
    /\ pc = "extraction"
    /\ step = "fetch"
    /\ LET fetched == get_files_by_status("NEW", batch_size) IN
       IF fetched = <<>>
       THEN /\ pc' = "resolution"
            /\ UNCHANGED <<page, idx, step, media_map, reads>>
       ELSE /\ \E batch_ok \in BOOLEAN :
                 media_map' = IF batch_ok THEN Range(fetched) ELSE {}
            /\ reads' = Append(reads, Range(fetched))
            /\ page' = fetched
            /\ idx' = 1
            /\ step' = "media"
            /\ pc' = pc
    /\ UNCHANGED <<tz, source, dry_run, batch_size, files, metadata, disk, tasks,
                   write_ops, runs, first_complete, copies, writes, call, ret>>

\* the embedded record saved whether or not the batch read returned the file
ExtractMedia_always ==
    /\ pc = "extraction"
    /\ step = "media"
    /\ metadata' = save_metadata(metadata, page[idx], "MEDIA",
                                 file_of(page[idx]).embedded)
    /\ step' = "json"
    /\ UNCHANGED <<tz, source, dry_run, batch_size, files, disk, pc, page, idx,
                   media_map, tasks, write_ops, runs, first_complete, copies, writes,
                   call, ret, reads>>

ExtractMedia ==
    /\ pc = "extraction"
    /\ step = "media"
    /\ metadata' = IF page[idx] \in media_map
                   THEN save_metadata(metadata, page[idx], "MEDIA",
                                      file_of(page[idx]).embedded)
                   ELSE metadata
    /\ step' = "json"
    /\ UNCHANGED <<tz, source, dry_run, batch_size, files, disk, pc, page, idx,
                   media_map, tasks, write_ops, runs, first_complete, copies, writes,
                   call, ret, reads>>

\* the per-file block without its try/except: the exception ends process()
ExtractSidecar_unguarded ==
    /\ pc = "extraction"
    /\ step = "json"
    /\ \E raised \in BOOLEAN :
         IF raised
         THEN /\ pc' = "idle"
              /\ ForgetLocals
              /\ UNCHANGED metadata
         ELSE /\ metadata' = IF file_of(page[idx]).sidecar /= None
                             THEN save_metadata(metadata, page[idx], "JSON",
                                     parse_json_sidecar(
                                        Val(file_of(page[idx]).sidecar)))
                             ELSE metadata
              /\ step' = "status"
              /\ UNCHANGED <<pc, page, idx, media_map, tasks, write_ops>>
    /\ UNCHANGED <<tz, source, dry_run, batch_size, files, disk, runs,
                   first_complete, copies, writes, call, ret, reads>>

\* parse_json_sidecar without its try/except: json.load raising reaches the
\* handler of the per-file block
ExtractSidecar_strict ==
    /\ pc = "extraction"
    /\ step = "json"
    /\ \E raised \in BOOLEAN :
         IF raised \/ (file_of(page[idx]).sidecar /= None
                       /\ ~IsJson(Val(file_of(page[idx]).sidecar)))
         THEN /\ files' = update_status(files, page[idx], "FAILED", "METADATA_READ",
                                        IF raised THEN Some("error")
                                                  ELSE Some(JSONDecodeError))
              /\ NextInPage("media")
              /\ UNCHANGED metadata
         ELSE /\ metadata' = IF file_of(page[idx]).sidecar /= None
                             THEN save_metadata(metadata, page[idx], "JSON",
                                     parse_json_sidecar(
                                        Val(file_of(page[idx]).sidecar)))
                             ELSE metadata
              /\ step' = "status"
              /\ UNCHANGED <<files, page, idx>>
    /\ UNCHANGED <<tz, source, dry_run, batch_size, disk, pc, media_map, tasks,
                   write_ops, runs, first_complete, copies, writes, call, ret, reads>>

ExtractSidecar ==
    /\ pc = "extraction"
    /\ step = "json"
    /\ \E raised \in BOOLEAN :
         IF raised
         THEN /\ files' = update_status(files, page[idx], "FAILED", "METADATA_READ",
                                        Some("error"))
              /\ NextInPage("media")
              /\ UNCHANGED metadata
         ELSE /\ metadata' = IF file_of(page[idx]).sidecar /= None
                             THEN save_metadata(metadata, page[idx], "JSON",
                                     parse_json_sidecar(
                                        Val(file_of(page[idx]).sidecar)))
                             ELSE metadata
              /\ step' = "status"
              /\ UNCHANGED <<files, page, idx>>
    /\ UNCHANGED <<tz, source, dry_run, batch_size, disk, pc, media_map, tasks,
                   write_ops, runs, first_complete, copies, writes, call, ret, reads>>

\* the per-file block without its update_status(METADATA_READ)
ExtractStatus_forgetting ==
    /\ pc = "extraction"
    /\ step = "status"
    /\ NextInPage("media")
    /\ UNCHANGED <<tz, source, dry_run, batch_size, files, metadata, disk, pc,
                   media_map, tasks, write_ops, runs, first_complete, copies, writes,
                   call, ret, reads>>

ExtractStatus ==
    /\ pc = "extraction"
    /\ step = "status"
    /\ files' = update_status(files, page[idx], "METADATA_READ", "METADATA_READ", None)
    /\ NextInPage("media")
    /\ UNCHANGED <<tz, source, dry_run, batch_size, metadata, disk, pc, media_map,
                   tasks, write_ops, runs, first_complete, copies, writes, call, ret, reads>>

ResolutionFetch ==
    /\ pc = "resolution"
    /\ step = "fetch"
    /\ LET fetched == get_files_by_status("METADATA_READ", batch_size) IN
       IF fetched = <<>>
       THEN /\ pc' = "execution"
            /\ UNCHANGED <<page, idx, step>>
       ELSE /\ page' = fetched
            /\ idx' = 1
            /\ step' = "merge"
            /\ pc' = pc
    /\ UNCHANGED <<tz, source, dry_run, batch_size, files, metadata, disk, media_map,
                   tasks, write_ops, runs, first_complete, copies, writes, call, ret, reads>>

ResolveMerge ==
    /\ pc = "resolution"
    /\ step = "merge"
    /\ LET id == page[idx]
           media_metadata == OrElseEmpty(get_metadata(id, "MEDIA"))
           json_metadata  == OrElseEmpty(get_metadata(id, "JSON"))
       IN  metadata' = save_metadata(metadata, id, "MERGED",
                          _merge_metadata(file_of(id).mtime, media_metadata,
                                          json_metadata))
    /\ step' = "target"
    /\ UNCHANGED <<tz, source, dry_run, batch_size, files, disk, pc, page, idx,
                   media_map, tasks, write_ops, runs, first_complete, copies, writes,
                   call, ret, reads>>

ResolveTarget ==
    /\ pc = "resolution"
    /\ step = "target"
    /\ \E raised \in BOOLEAN :
         IF raised
         THEN /\ files' = update_status(files, page[idx], "FAILED", "RESOLUTION",
                                        Some("error"))
              /\ NextInPage("merge")
         ELSE /\ LET id == page[idx]
                     timestamp == Val(metadata[<<id, "MERGED">>].timestamp)
                     target_path == get_target_path(timestamp, file_of(id).name)
                     final_path == resolve_collision(DOMAIN disk, target_path)
                 IN  files' = update_target_path(files, id, final_path)
              /\ step' = "status"
              /\ UNCHANGED <<page, idx>>
    /\ UNCHANGED <<tz, source, dry_run, batch_size, metadata, disk, pc, media_map,
                   tasks, write_ops, runs, first_complete, copies, writes, call, ret, reads>>

ResolveStatus ==
    /\ pc = "resolution"
    /\ step = "status"
    /\ files' = update_status(files, page[idx], "TARGET_RESOLVED", "RESOLUTION", None)
    /\ NextInPage("merge")
    /\ UNCHANGED <<tz, source, dry_run, batch_size, metadata, disk, pc, media_map,
                   tasks, write_ops, runs, first_complete, copies, writes, call, ret, reads>>

ExecutionFetch ==
    /\ pc = "execution"
    /\ step = "fetch"
    /\ LET fetched == get_files_by_status("TARGET_RESOLVED", batch_size) IN
       IF fetched = <<>>
       THEN /\ pc' = "done"
            /\ first_complete' = IF first_complete = 0 THEN runs ELSE first_complete
            /\ ForgetLocals
       ELSE /\ page' = fetched
            /\ tasks' = [id \in Range(fetched) |-> "queued"]
            /\ write_ops' = <<>>
            /\ step' = "run"
            /\ UNCHANGED <<pc, first_complete, idx, media_map>>
    /\ UNCHANGED <<tz, source, dry_run, batch_size, files, metadata, disk, runs,
                   copies, writes, call, ret, reads>>

Finished == {"skipped", "raised", "dry", "copied", "copy_failed"}

\* the pool starts the futures in submission order, max_workers at a time
CanStart(id) ==
    /\ id \in DOMAIN tasks
    /\ tasks[id] = "queued"
    /\ \A i, j \in DOMAIN page :
          (page[j] = id /\ i < j) => tasks[page[i]] /= "queued"
    /\ Cardinality({t \in DOMAIN tasks : tasks[t] \in {"reading", "copy"}})
          < max_workers

\* _execute_single_file starts in a worker thread: target_path.exists()
ExecStart(id) ==
    /\ pc = "execution"
    /\ step = "run"
    /\ CanStart(id)
    /\ tasks' = [tasks EXCEPT ![id] =
                    IF Val(files[id].target_path) \in DOMAIN disk
                    THEN "reading" ELSE "copy"]
    /\ UNCHANGED <<tz, source, dry_run, batch_size, files, metadata, disk, pc, page,
                   idx, step, media_map, write_ops, runs, first_complete, copies,
                   writes, call, ret, reads>>

\* the call of extract_metadata on the existing target returns, and the
\* duplicate check; an exception reaches future.result() in _phase_execution,
\* which records FAILED
ExecCheck(id) ==
    /\ pc = "execution"
    /\ step = "run"
    /\ id \in DOMAIN tasks
    /\ tasks[id] = "reading"
    /\ LET target_path == Val(files[id].target_path)
           merged_metadata == get_metadata(id, "MERGED")
       IN  \E raised \in BOOLEAN :
              IF raised
              THEN /\ files' = update_status(files, id, "FAILED", "EXECUTION",
                                             Some("error"))
                   /\ tasks' = [tasks EXCEPT ![id] = "raised"]
              ELSE /\ tasks' = [tasks EXCEPT ![id] =
                          IF /\ merged_metadata /= None
                             /\ is_identical(Val(merged_metadata),
                                             extract_metadata(target_path))
                          THEN "skipped" ELSE "copy"]
                   /\ UNCHANGED files
    /\ UNCHANGED <<tz, source, dry_run, batch_size, metadata, disk, pc, page, idx,
                   step, media_map, write_ops, runs, first_complete, copies, writes,
                   call, ret, reads>>

\* copy_file without its `if self.dry_run: return`
copy_file_always(tree, id, dest, timestamp, copied) ==
    IF ~ copied THEN tree
    ELSE Put(tree, dest, [content |-> files[id].source_path,
                          tags |-> file_of(id).embedded,
                          mtime |-> timestamp])

\* FileOrganizer.copy_file: shutil.copy2 and os.utime, any exception logged
copy_file(tree, id, dest, timestamp, copied) ==
    IF dry_run \/ ~ copied THEN tree
    ELSE Put(tree, dest, [content |-> files[id].source_path,
                          tags |-> file_of(id).embedded,
                          mtime |-> timestamp])

\* the rest of _execute_single_file; its result is appended to write_ops
ExecCopy(id) ==
    /\ pc = "execution"
    /\ step = "run"
    /\ id \in DOMAIN tasks
    /\ tasks[id] = "copy"
    /\ LET target_path == Val(files[id].target_path)
           merged_metadata == get_metadata(id, "MERGED")
           media_type == get_media_type(file_of(id).name.suffix)
           timestamp == IF merged_metadata /= None
                           /\ TruthyNum(Val(merged_metadata).timestamp)
                        THEN Val(Val(merged_metadata).timestamp)
                        ELSE file_of(id).mtime
       IN  /\ \E copied \in BOOLEAN :
                /\ disk' = copy_file(disk, id, target_path, timestamp, copied)
                /\ copies' = IF dry_run \/ ~ copied THEN copies ELSE copies + 1
                /\ tasks' = [tasks EXCEPT ![id] =
                                IF dry_run THEN "dry"
                                ELSE IF copied THEN "copied" ELSE "copy_failed"]
           /\ write_ops' = IF merged_metadata /= None /\ supports_write(media_type)
                           THEN Append(write_ops,
                                       [id |-> id, path |-> target_path,
                                        media_type |-> media_type,
                                        metadata |-> Val(merged_metadata)])
                           ELSE write_ops
    /\ UNCHANGED <<tz, source, dry_run, batch_size, files, metadata, pc, page, idx,
                   step, media_map, runs, first_complete, writes, call, ret, reads>>

\* MetadataHandler.write_metadata_batch: ops without tags are dropped, a
\* failing op (or a target that is not there) is logged and the rest go on
RECURSIVE apply_writes(_, _, _, _)
apply_writes(tree, ops, i, failing) ==
    IF i > Len(ops) THEN tree
    ELSE LET tags == to_tags(ops[i].metadata, ops[i].media_type)
             written == /\ tags /= NoTags
                        /\ i \notin failing
                        /\ ops[i].path \in DOMAIN tree
         IN  apply_writes(IF written
                          THEN [tree EXCEPT ![ops[i].path].tags = set_tags(@, tags)]
                          ELSE tree,
                          ops, i + 1, failing)

valid_ops(ops) ==
    {i \in DOMAIN ops : to_tags(ops[i].metadata, ops[i].media_type) /= NoTags}

BatchWrite ==
    /\ pc = "execution"
    /\ step = "run"
    /\ \A id \in DOMAIN tasks : tasks[id] \in Finished
    /\ IF write_ops = <<>> \/ dry_run
       THEN UNCHANGED <<disk, writes>>
       ELSE /\ \E failing \in SUBSET (DOMAIN write_ops) :
                 disk' = apply_writes(disk, write_ops, 1, failing)
            /\ writes' = writes + Cardinality(valid_ops(write_ops))
    /\ step' = "sweep"
    /\ idx' = 1
    /\ UNCHANGED <<tz, source, dry_run, batch_size, files, metadata, pc, page,
                   media_map, tasks, write_ops, runs, first_complete, copies, call, ret, reads>>

SweepAll(table, id) == update_status(table, id, "SUCCESS", "EXECUTION", None)

\* SUCCESS only for the rows that have an entry in write_ops
SweepWritten(table, id) ==
    IF /\ table[id].status = "TARGET_RESOLVED"
       /\ \E i \in DOMAIN write_ops : write_ops[i].id = id
    THEN update_status(table, id, "SUCCESS", "EXECUTION", None)
    ELSE table

SweepStatus(table, id) ==
    IF table[id].status = "TARGET_RESOLVED"
    THEN update_status(table, id, "SUCCESS", "EXECUTION", None)
    ELSE table

Sweep ==
    /\ pc = "execution"
    /\ step = "sweep"
    /\ files' = SweepStatus(files, page[idx])
    /\ NextInPage("sweep")
    /\ UNCHANGED <<tz, source, dry_run, batch_size, metadata, disk, pc, media_map,
                   tasks, write_ops,
                   runs, first_complete, copies, writes, call, ret, reads>>

\* the process is killed; the store and the destination tree stay as they are
Interrupt ==
    /\ pc \notin {"idle", "done"}
    /\ runs < MaxRuns
    /\ pc' = "idle"
    /\ ForgetLocals
    /\ UNCHANGED <<tz, source, dry_run, batch_size, files, metadata, disk, runs,
                   first_complete, copies, writes, call, ret, reads>>

----------------------------------------------------------------------------
(* A call of the store raising (sqlite3.Error) at the places the phases     *)
(* call it                                                                  *)

\* the exception leaves process(): the invocation is over
Aborts ==
    /\ pc' = "idle"
    /\ ForgetLocals

\* add_file raises in Discovery: `except Exception` logs it, the walk goes on
DiscoverAddFails ==
    /\ pc = "discovery"
    /\ idx \in Paths
    /\ _should_process(source[idx].name)
    /\ idx' = idx + 1
    /\ UNCHANGED <<tz, source, dry_run, batch_size, files, metadata, disk, pc, page,
                   step, media_map, tasks, write_ops, runs, first_complete, copies,
                   writes, call, ret, reads>>

\* save_metadata or update_status raises inside the per-file try of
\* Extraction: the handler calls update_status(FAILED), which may raise too
ExtractStoreFails ==
    /\ pc = "extraction"
    /\ \/ step = "media" /\ page[idx] \in media_map
       \/ step = "json" /\ file_of(page[idx]).sidecar /= None
       \/ step = "status"
    /\ \E again \in BOOLEAN :
         IF again
         THEN Aborts /\ UNCHANGED files
         ELSE /\ files' = update_status(files, page[idx], "FAILED", "METADATA_READ",
                                        Some("error"))
              /\ NextInPage("media")
              /\ UNCHANGED <<pc, media_map, tasks, write_ops>>
    /\ UNCHANGED <<tz, source, dry_run, batch_size, metadata, disk, runs,
                   first_complete, copies, writes, call, ret, reads>>

\* save_metadata, update_target_path or update_status raises inside the
\* per-file try of Resolution
ResolveStoreFails ==
    /\ pc = "resolution"
    /\ step \in {"merge", "target", "status"}
    /\ \E again \in BOOLEAN :
         IF again
         THEN Aborts /\ UNCHANGED files
         ELSE /\ files' = update_status(files, page[idx], "FAILED", "RESOLUTION",
                                        Some("error"))
              /\ NextInPage("merge")
              /\ UNCHANGED <<pc, media_map, tasks, write_ops>>
    /\ UNCHANGED <<tz, source, dry_run, batch_size, metadata, disk, runs,
                   first_complete, copies, writes, call, ret, reads>>

\* update_status(SUCCESS) raises in the closing loop of Execution, which has
\* no try around it
SweepStoreFails ==
    /\ pc = "execution"
    /\ step = "sweep"
    /\ files[page[idx]].status = "TARGET_RESOLVED"
    /\ Aborts
    /\ UNCHANGED <<tz, source, dry_run, batch_size, files, metadata, disk, runs,
                   first_complete, copies, writes, call, ret, reads>>

StoreFailure ==
    \/ DiscoverAddFails
    \/ ExtractStoreFails
    \/ ResolveStoreFails
    \/ SweepStoreFails

----------------------------------------------------------------------------

NoCall == [fn |-> "none"]

\* a new store, an empty destination tree, the tool not yet invoked
InitStore ==
    /\ dry_run = FALSE
    /\ files = <<>>
    /\ metadata = [k \in {} |-> EmptyMetadata]
    /\ disk = [p \in {} |-> None]
    /\ pc = "idle"
    /\ page = <<>>
    /\ idx = 0
    /\ step = "none"
    /\ media_map = {}
    /\ tasks = NoTasks
    /\ write_ops = <<>>
    /\ runs = 0
    /\ first_complete = 0
    /\ copies = 0
    /\ writes = 0
    /\ reads = <<>>

Init ==
    /\ tz = 0
    /\ source \in [Files -> SourceFiles]
    /\ batch_size \in 1 .. MaxBatch
    /\ call = NoCall
    /\ ret = None
    /\ InitStore

\* the steps of process(), invoked again after it ended or was killed
Run ==
    \/ StartRun
    \/ Discover
    \/ DiscoveryDone
    \/ ExtractionFetch
    \/ ExtractMedia
    \/ ExtractSidecar
    \/ ExtractStatus
    \/ ResolutionFetch
    \/ ResolveMerge
    \/ ResolveTarget
    \/ ResolveStatus
    \/ ExecutionFetch
    \/ \E id \in DOMAIN tasks : ExecStart(id)
    \/ \E id \in DOMAIN tasks : ExecCheck(id)
    \/ \E id \in DOMAIN tasks : ExecCopy(id)
    \/ BatchWrite
    \/ Sweep

Next == Run \/ Interrupt

Spec == Init /\ [][Next]_vars

\* invocations that are never killed, each running as long as it has a step
RunSpec == Init /\ [][Run]_vars /\ WF_vars(Run)

\* a started process keeps running unless it is killed, and the operator
\* invokes the tool again after that
LiveSpec == Init /\ [][Next]_vars /\ WF_vars(Run)

\* invocations on a store whose calls may raise
FaultNext == Run \/ StoreFailure

FaultSpec == Init /\ [][FaultNext]_vars

----------------------------------------------------------------------------
(* The pipeline pointed at a destination that already holds a file *)

\* content of a file that was in the destination before the tool ever ran
PreExisting == 0

SeededTree ==
    [p \in {[dir |-> "2022/01", stem |-> "photo", suffix |-> ".jpg"]} |->
        [content |-> PreExisting, tags |-> EmbeddedValid, mtime |-> 1641038400]]

SeededInit ==
    /\ tz = 0
    /\ source \in [Files -> [name     : {[stem |-> <<"photo">>, suffix |-> ".jpg"]},
                            mtime    : {1577880000},
                            embedded : {EmbeddedValid, EmbeddedOld},
                            sidecar  : {None}]]
    /\ batch_size \in 1 .. MaxBatch
    /\ call = NoCall
    /\ ret = None
    /\ dry_run = FALSE
    /\ files = <<>>
    /\ metadata = [k \in {} |-> EmptyMetadata]
    /\ disk = SeededTree
    /\ pc = "idle"
    /\ page = <<>>
    /\ idx = 0
    /\ step = "none"
    /\ media_map = {}
    /\ tasks = NoTasks
    /\ write_ops = <<>>
    /\ runs = 0
    /\ first_complete = 0
    /\ copies = 0
    /\ writes = 0
    /\ reads = <<>>

SeededSpec == SeededInit /\ [][Next]_vars

----------------------------------------------------------------------------
(* The pipeline pointed at a source tree with edited variants, upper-case   *)
(* extensions and files that are no media                                   *)

MixedNames ==
    [stem   : {<<"photo">>, <<"photo", "-edited">>, <<"-edited", "photo">>},
     suffix : {".jpg", ".JPG", ".txt"}]

MixedInit ==
    /\ tz = 0
    /\ source \in [Files -> [name     : MixedNames,
                            mtime    : {1577880000},
                            embedded : {EmbeddedValid},
                            sidecar  : {None}]]
    /\ batch_size = MaxBatch
    /\ call = NoCall
    /\ ret = None
    /\ InitStore

MixedSpec == MixedInit /\ [][Next]_vars

----------------------------------------------------------------------------
(* The pipeline on a source tree with sidecars that are not JSON *)

MalformedInit ==
    /\ tz = 0
    /\ source \in [Files -> [name     : {[stem |-> <<"photo">>, suffix |-> ".jpg"]},
                            mtime    : {1577880000},
                            embedded : {EmbeddedValid},
                            sidecar  : {Some(SidecarMalformed), Some(SidecarFull)}]]
    /\ batch_size \in 1 .. MaxBatch
    /\ call = NoCall
    /\ ret = None
    /\ InitStore

MalformedSpec == MalformedInit /\ [][Next]_vars

----------------------------------------------------------------------------
(* The pipeline, never killed, on a source tree larger than a page *)

NBatchFiles == 3

BatchInit ==
    /\ tz = 0
    /\ source = [path \in 1 .. NBatchFiles |->
                    [name     |-> [stem |-> <<"photo">>, suffix |-> ".jpg"],
                     mtime    |-> 1577880000,
                     embedded |-> EmbeddedValid,
                     sidecar  |-> None]]
    /\ batch_size \in 1 .. MaxBatch
    /\ call = NoCall
    /\ ret = None
    /\ InitStore

BatchSpec == BatchInit /\ [][Run]_vars

----------------------------------------------------------------------------
(* _merge_metadata on its own: one call on sampled embedded and sidecar     *)
(* records, in several time zones                                           *)

TZOffsets == {-18000, 0, 3600}

TimestampSamples ==
    {None, Some(0), Some(631195200), Some(915145199), Some(915145200),
     Some(915148799), Some(915148800), Some(915166799), Some(915166800),
     Some(1609502400), Some(1641038400)}

MergeCalls ==
    [fn    : {"merge"},
     mtime : {1577880000},
     media : [timestamp : TimestampSamples,
              people    : {None, Some(<<"Alice", "Bob">>)},
              gps       : {None, Some(Gps1)},
              url       : {None, Some("http://original.com")}],
     json  : [timestamp : TimestampSamples,
              people    : {None, Some(<<>>)},
              gps       : {None, Some(Gps2)},
              url       : {None, Some("http://json.com")}]]

MergeInit ==
    /\ tz \in TZOffsets
    /\ source = [id \in Files |-> [name |-> [stem |-> <<"photo">>, suffix |-> ".jpg"],
                                    mtime |-> 1577880000,
                                    embedded |-> EmptyMetadata,
                                    sidecar |-> None]]
    /\ batch_size = 1
    /\ call \in MergeCalls
    /\ ret = None
    /\ InitStore

ApplyMerge ==
    /\ call.fn = "merge"
    /\ ret = None
    /\ ret' = Some(_merge_metadata(call.mtime, call.media, call.json))
    /\ UNCHANGED <<tz, call, pipeline_vars>>

MergeSpec == MergeInit /\ [][ApplyMerge]_vars

----------------------------------------------------------------------------
(* Single calls of the pure functions, on sampled arguments *)

\* the state around one call: nothing discovered, the call not yet made
CallInit(calls) ==
    /\ tz = 0
    /\ source = [id \in Files |-> [name |-> [stem |-> <<"photo">>, suffix |-> ".jpg"],
                                    mtime |-> 1577880000,
                                    embedded |-> EmptyMetadata,
                                    sidecar |-> None]]
    /\ batch_size = 1
    /\ call \in calls
    /\ ret = None
    /\ InitStore

\* resolve_collision on a directory holding some of name, name_1, name_2, ...
MaxProbed == 6

Numbered(target_path, counter) ==
    IF counter = 0 THEN target_path
    ELSE [target_path EXCEPT !.stem = target_path.stem \o "_" \o ToString(counter)]

CollisionTarget == [dir |-> "2021/01", stem |-> "photo", suffix |-> ".jpg"]

CollisionCalls ==
    [fn          : {"resolve_collision"},
     existing    : SUBSET {Numbered(CollisionTarget, k) : k \in 0 .. MaxProbed},
     target_path : {CollisionTarget}]

ApplyResolveCollision ==
    /\ call.fn = "resolve_collision"
    /\ ret = None
    /\ ret' = Some(resolve_collision(call.existing, call.target_path))
    /\ UNCHANGED <<tz, call, pipeline_vars>>

CollisionInit == CallInit(CollisionCalls)

CollisionSpec == CollisionInit /\ [][ApplyResolveCollision]_vars

\* get_target_path on sampled timestamps and file names
TargetNames ==
    [stem   : {<<"motion">>, <<"clip", ".mp">>, <<"photo", "-edited">>},
     suffix : {".mp", ".MP", ".Mp", ".mP", ".mp4", ".MP4", ".jpg", ".JPG"}]

TargetCalls ==
    [fn        : {"get_target_path"},
     timestamp : {Val(t) : t \in TimestampSamples \ {None}},
     name      : TargetNames]

ApplyGetTargetPath ==
    /\ call.fn = "get_target_path"
    /\ ret = None
    /\ ret' = Some(get_target_path(call.timestamp, call.name))
    /\ UNCHANGED <<tz, call, pipeline_vars>>

TargetInit == CallInit(TargetCalls)

TargetSpec == TargetInit /\ [][ApplyGetTargetPath]_vars

\* is_identical on pairs of sampled records: timestamps 0, 1 and 2 seconds
\* apart, positions 1.0e-4, 1.1e-4 degrees apart on one axis, people in
\* another order, with a repeated name, URLs absent, empty and different
IdenticalSamples ==
    [timestamp : {None, Some(1609502400), Some(1609502401), Some(1609502402)},
     people    : {None, Some(<<>>), Some(<<"Alice", "Bob">>),
                  Some(<<"Bob", "Alice">>), Some(<<"Alice", "Alice">>)},
     gps       : {None, Some(GpsData(4871000, 229000, None)),
                  Some(GpsData(4871010, 229000, Some(35))),
                  Some(GpsData(4871000, 229011, None))},
     url       : {None, Some(""), Some("http://json.com")}]

IdenticalCalls ==
    [fn : {"is_identical"}, self : IdenticalSamples, other : IdenticalSamples]

ApplyIsIdentical ==
    /\ call.fn = "is_identical"
    /\ ret = None
    /\ ret' = Some(is_identical(call.self, call.other))
    /\ UNCHANGED <<tz, call, pipeline_vars>>

IdenticalInit == CallInit(IdenticalCalls)

IdenticalSpec == IdenticalInit /\ [][ApplyIsIdentical]_vars

----------------------------------------------------------------------------
(* media_metadata.py: GPS from the tags ExifTool returns.  The tags are the *)
(* items of the dict in order, <<key, value>>; positions are in             *)
(* microdegrees, GPSCoordinates is the list of its comma-separated numbers. *)

\* a tag value is a number, a list of numbers or a text
Tag(k, v) == [k |-> k, v |-> v]
Num(n)    == [nums |-> <<n>>, text |-> ""]
Nums(s)   == [nums |-> s, text |-> ""]
Text(t)   == [nums |-> <<>>, text |-> t]

NoPosition == [lat |-> None, lon |-> None, alt |-> None,
               lat_ref |-> None, lon_ref |-> None]

\* the loop over data.items()
RECURSIVE scan_gps_tags(_, _)
scan_gps_tags(data, found) ==
    IF data = <<>> THEN found
    ELSE LET k == Head(data).k
             v == Head(data).v
         IN  scan_gps_tags(Tail(data),
                CASE k = "GPSLatitude"     -> [found EXCEPT !.lat = Some(v.nums[1])]
                  [] k = "GPSLongitude"    -> [found EXCEPT !.lon = Some(v.nums[1])]
                  [] k = "GPSAltitude"     -> [found EXCEPT !.alt = Some(v.nums[1])]
                  [] k = "GPSCoordinates"  ->
                        LET parts == v.nums IN
                        IF Len(parts) >= 2
                        THEN [found EXCEPT !.lat = Some(parts[1]),
                                           !.lon = Some(parts[2]),
                                           !.alt = IF Len(parts) >= 3
                                                   THEN Some(parts[3])
                                                   ELSE found.alt]
                        ELSE found
                  [] k = "GPSLatitudeRef"  -> [found EXCEPT !.lat_ref = Some(v.text)]
                  [] k = "GPSLongitudeRef" -> [found EXCEPT !.lon_ref = Some(v.text)]
                  [] OTHER                 -> found)

\* the same without the test for the (0,0) sentinel
_parse_gps_from_exif_keeping_zero(data) ==
    LET found == scan_gps_tags(data, NoPosition) IN
    IF found.lat /= None /\ found.lon /= None
    THEN Some(GpsData(Val(found.lat), Val(found.lon), found.alt))
    ELSE None

_parse_gps_from_exif(data) ==
    LET found == scan_gps_tags(data, NoPosition) IN
    IF found.lat /= None /\ found.lon /= None
    THEN LET lat == Val(found.lat)
             lon == Val(found.lon)
             lat_float == IF found.lat_ref = Some("S") /\ lat > 0 THEN -lat ELSE lat
             lon_float == IF found.lon_ref = Some("W") /\ lon > 0 THEN -lon ELSE lon
         IN  IF ~(lat_float = 0 /\ lon_float = 0)
             THEN Some(GpsData(lat_float, lon_float, found.alt))
             ELSE None
    ELSE None

\* tags of files without a position, at the sentinel, and at a real position
ZeroTagSamples ==
    {<<Tag("GPSLatitude", Num(0)), Tag("GPSLongitude", Num(0))>>,
     <<Tag("GPSLatitude", Num(0)), Tag("GPSLongitude", Num(0)), Tag("GPSAltitude", Num(35))>>,
     <<Tag("GPSLatitudeRef", Text("S")), Tag("GPSLatitude", Num(0)),
       Tag("GPSLongitudeRef", Text("W")), Tag("GPSLongitude", Num(0))>>,
     <<Tag("GPSCoordinates", Nums(<<0, 0>>))>>,
     <<Tag("GPSCoordinates", Nums(<<0, 0, 12>>))>>,
     <<Tag("GPSLatitude", Num(4871000)), Tag("GPSLongitude", Num(229000)),
       Tag("GPSCoordinates", Nums(<<0, 0>>))>>}

TagSamples ==
    ZeroTagSamples \cup
    {<<>>,
     <<Tag("GPSLatitude", Num(4871000))>>,
     <<Tag("GPSLatitude", Num(0)), Tag("GPSLongitude", Num(229000))>>,
     <<Tag("GPSLatitude", Num(4871000)), Tag("GPSLongitude", Num(229000))>>,
     <<Tag("GPSLatitudeRef", Text("S")), Tag("GPSLatitude", Num(3385000)),
       Tag("GPSLongitudeRef", Text("E")), Tag("GPSLongitude", Num(15121000))>>,
     <<Tag("GPSCoordinates", Nums(<<4871000, 229000, 35>>))>>,
     <<Tag("GPSCoordinates", Nums(<<0>>)), Tag("GPSAltitude", Num(0))>>,
     <<Tag("GPSCoordinates", Nums(<<0, 0>>)), Tag("GPSLatitude", Num(4871000)),
       Tag("GPSLongitude", Num(229000))>>}

GeoSamples ==
    {None} \cup
    {Some([latitude |-> lat, longitude |-> lon, altitude |-> alt]) :
        lat \in {0, 4871000}, lon \in {0, 229000}, alt \in {0, 35}}

\* one file through parsing and merge: its tags, its sidecar
GpsCalls ==
    [fn      : {"gps"},
     tags    : TagSamples,
     sidecar : {SidecarJson(Some(1609502400), geo, None, None) : geo \in GeoSamples}]

\* _parse_exif_data and parse_json_sidecar of the file
ParseBoth ==
    /\ call.fn = "gps"
    /\ ret = None
    /\ ret' = Some([media  |-> MediaMetadata(None, None,
                                             _parse_gps_from_exif(call.tags), None),
                    json   |-> parse_json_sidecar(call.sidecar),
                    merged |-> None])
    /\ UNCHANGED <<tz, call, pipeline_vars>>

\* _merge_metadata of the two records
MergeBoth ==
    /\ call.fn = "gps"
    /\ ret /= None
    /\ Val(ret).merged = None
    /\ ret' = Some([Val(ret) EXCEPT !.merged =
                       Some(_merge_metadata(1577880000, Val(ret).media,
                                            Val(ret).json))])
    /\ UNCHANGED <<tz, call, pipeline_vars>>

GpsNext == ParseBoth \/ MergeBoth

GpsInit == CallInit(GpsCalls)

GpsSpec == GpsInit /\ [][GpsNext]_vars

----------------------------------------------------------------------------
(* media_processor.py: the sidecar matcher.  A file name is the sequence of *)
(* the pieces the matcher's string tests cut it into: "photo.jpg(1).json"   *)
(* is <<"photo", ".jpg", "(1)", ".json">>.                                  *)

\* the pieces that begin with a dot, and the one that ends in "json"
DotPieces == {".jpg", ".png", ".json", ".txt", ".supplemental-metadata",
              ".other"}

JSON == ".json"

\* re.search(r'(\(\d+\))$', stem)
CounterPieces == {"(1)"}

IsPrefix(p, s) == Len(p) <= Len(s) /\ SubSeq(s, 1, Len(p)) = p

\* fnmatch of a name against f"{stem}.*json"
globmatch(name, stem) ==
    /\ Len(name) > Len(stem)
    /\ IsPrefix(stem, name)
    /\ name[Len(stem) + 1] \in DotPieces
    /\ name[Len(name)] = JSON

\* Path.glob: the matching entries, in the order the directory lists them
glob(listing, stem) == SelectSeq(listing, LAMBDA name : globmatch(name, stem))

score_candidate(name, media_name, media_stem) ==
    IF name = media_name \o <<JSON>> THEN 0
    ELSE IF name = media_stem \o <<JSON>> THEN 1
    ELSE IF Len(name) > Len(media_name) /\ IsPrefix(media_name, name)
            /\ name[Len(media_name) + 1] \in DotPieces THEN 2
    ELSE 3

\* list.sort(key=...): stable, ties keep the order they had
RECURSIVE sort_by_score(_, _, _, _)
sort_by_score(candidates, media_name, media_stem, score) ==
    IF score > 3 THEN <<>>
    ELSE SelectSeq(candidates,
                   LAMBDA c : score_candidate(c, media_name, media_stem) = score)
         \o sort_by_score(candidates, media_name, media_stem, score + 1)

RECURSIVE first_existing(_, _)
first_existing(candidates, listing) ==
    IF candidates = <<>> THEN None
    ELSE IF \E i \in DOMAIN listing : listing[i] = Head(candidates)
         THEN Some(Head(candidates))
         ELSE first_existing(Tail(candidates), listing)

_find_json_sidecar(media, listing) ==
    LET stem       == media.stem
        media_name == stem \o <<media.suffix>>
        globbed    == glob(listing, stem)
                      \o (IF endswith(stem, "-edited")
                          THEN glob(listing, SubSeq(stem, 1, Len(stem) - 1))
                          ELSE <<>>)
        sorted     == IF Len(globbed) > 1
                      THEN sort_by_score(globbed, media_name, stem, 0)
                      ELSE globbed
        candidates ==
            IF stem /= <<>> /\ stem[Len(stem)] \in CounterPieces
            THEN LET duplicate_suffix == stem[Len(stem)]
                     base_stem        == SubSeq(stem, 1, Len(stem) - 1)
                     potential_name   == base_stem \o <<media.suffix,
                                                        duplicate_suffix, JSON>>
                     legacy_duplicate == stem \o <<JSON>>
                     with_potential   == Append(sorted, potential_name)
                 IN  IF \E i \in DOMAIN with_potential :
                           with_potential[i] = legacy_duplicate
                     THEN with_potential
                     ELSE Append(with_potential, legacy_duplicate)
            ELSE sorted
    IN  first_existing(candidates, listing)

\* one call of the matcher: a media file and the entries of its directory as
\* the file system lists them
MaxListing == 3

MediaNames ==
    {[stem |-> <<"photo">>, suffix |-> ".jpg"],
     [stem |-> <<"photo", "-edited">>, suffix |-> ".jpg"],
     [stem |-> <<"photo", "(1)">>, suffix |-> ".jpg"]}

DirEntries ==
    {<<"photo", ".jpg", ".json">>,
     <<"photo", ".json">>,
     <<"photo", ".jpg", ".supplemental-metadata", ".json">>,
     <<"photo", ".supplemental-metadata", ".json">>,
     <<"photo", ".jpg", ".other", ".json">>,
     <<"photo", ".other", ".json">>,
     <<"photo", ".jpg", ".txt">>,
     <<"photo", "-edited", ".jpg", ".json">>,
     <<"photo", "-edited", ".other", ".json">>,
     <<"photo", ".jpg", "(1)", ".json">>,
     <<"photo", "(1)", ".json">>,
     <<"photo", "(1)", ".jpg", ".json">>,
     <<"photo", "(1)", ".other", ".json">>,
     <<"photo", ".png">>,
     <<"photo", ".png", ".json">>}

\* a directory lists each entry once
Listings ==
    {l \in UNION {[1 .. n -> DirEntries] : n \in 0 .. MaxListing} :
        \A i, j \in DOMAIN l : i /= j => l[i] /= l[j]}

SidecarCalls ==
    [fn : {"_find_json_sidecar"}, media : MediaNames, listing : Listings]

ApplyFindSidecar ==
    /\ call.fn = "_find_json_sidecar"
    /\ ret = None
    /\ ret' = Some(_find_json_sidecar(call.media, call.listing))
    /\ UNCHANGED <<tz, call, pipeline_vars>>

SidecarInit == CallInit(SidecarCalls)

SidecarSpec == SidecarInit /\ [][ApplyFindSidecar]_vars

----------------------------------------------------------------------------
(* Properties *)

Terminal == {"SUCCESS", "FAILED"}

StatusOf(table, id) == IF id \in DOMAIN table THEN table[id].status ELSE "absent"

\* C1: the persisted status of a row only moves NEW -> METADATA_READ ->
\* TARGET_RESOLVED -> SUCCESS, or from a non-terminal status to FAILED; no
\* status is skipped and none moves backwards, over any sequence of runs.
C1_StatusOrder ==
    [][\A id \in DOMAIN files' :
          \/ StatusOf(files', id) = StatusOf(files, id)
          \/ <<StatusOf(files, id), StatusOf(files', id)>> \in
                {<<"absent", "NEW">>,
                 <<"NEW", "METADATA_READ">>,
                 <<"METADATA_READ", "TARGET_RESOLVED">>,
                 <<"TARGET_RESOLVED", "SUCCESS">>,
                 <<"NEW", "FAILED">>,
                 <<"METADATA_READ", "FAILED">>,
                 <<"TARGET_RESOLVED", "FAILED">>}]_vars

C1_Witness ==
    /\ pc = "done"
    /\ \E a, b \in DOMAIN files :
          /\ files[a].status = "SUCCESS"
          /\ files[b].status = "FAILED"
          /\ files[b].phase = "RESOLUTION"

\* C2: SUCCESS and FAILED are absorbing: no step of the same run (the sweep
\* at the end of an Execution page included) and no later run changes the
\* status of such a row, and no phase fetches it into a page again.
C2_Absorbing ==
    [][\A id \in DOMAIN files :
          files[id].status \in Terminal =>
             /\ StatusOf(files', id) = files[id].status
             /\ (page' /= page => id \notin Range(page'))]_vars

C2_Witness ==
    /\ runs = 2
    /\ pc = "done"
    /\ \E a, b \in DOMAIN files :
          /\ files[a].status = "FAILED"
          /\ files[a].phase = "EXECUTION"
          /\ files[b].status = "SUCCESS"

\* C3: once an invocation has run to completion, a later invocation on the
\* same store and the same source copies no bytes and writes no tags.
C3_Idempotent ==
    (first_complete /= 0 /\ runs > first_complete) => (copies = 0 /\ writes = 0)

C3_Witness ==
    /\ first_complete = 1
    /\ runs = 2
    /\ pc = "done"
    /\ ~ dry_run
    /\ \E id \in DOMAIN files :
          /\ files[id].status = "SUCCESS"
          /\ Val(files[id].target_path) \in DOMAIN disk
          /\ disk[Val(files[id].target_path)].content = files[id].source_path

AllTerminal ==
    \A path \in Paths :
       _should_process(source[path].name) =>
          \E id \in DOMAIN files : /\ files[id].source_path = path
                                    /\ files[id].status \in Terminal

StoreKept ==
    /\ \A id \in DOMAIN files : id \in DOMAIN files' /\ files'[id] = files[id]
    /\ \A k \in DOMAIN metadata :
          k \in DOMAIN metadata' /\ metadata'[k] = metadata[k]

ResumeKeepsStore == [][(pc \in {"idle", "done", "discovery"}) => StoreKept]_vars

\* C4: when a run is killed between any two commits and the tool is invoked
\* again on the same store, the invocation and its Discovery leave every row
\* and metadata record as persisted (no row is reset or restarted, SUCCESS
\* rows are untouched), and the re-run brings every row to SUCCESS or FAILED.
C4_Resume ==
    /\ ResumeKeepsStore
    /\ ((pc = "idle" /\ runs > 0) ~> AllTerminal)

C4_Witness ==
    /\ first_complete = 2
    /\ pc = "done"
    /\ AllTerminal
    /\ \E id \in DOMAIN files : files[id].status = "SUCCESS"

\* C5: no two rows ever hold the same target_path (N files computing the
\* same destination get name.ext, name_1.ext, ..., name_(N-1).ext).
C5_DistinctTargets ==
    \A a, b \in DOMAIN files :
       (a /= b /\ files[a].target_path /= None) =>
          files[a].target_path /= files[b].target_path

\* C6: a row whose per-file step failed (here: the worker raised, or the byte
\* copy to the target failed) is never recorded as SUCCESS, and once its page
\* is finished it is FAILED with the phase and an error message.
C6_FailureRecorded ==
    \A id \in DOMAIN tasks :
       tasks[id] \in {"raised", "copy_failed"} =>
          /\ files[id].status /= "SUCCESS"
          /\ step = "fetch" =>
                /\ files[id].status = "FAILED"
                /\ files[id].phase = "EXECUTION"
                /\ files[id].error_message /= None

\* C7: for a file whose embedded timestamp is valid, the payload enqueued in
\* write_ops carries no timestamp, and its target directory is the year and
\* month of the embedded timestamp.
C7_TimestampNotRewritten ==
    \A i \in DOMAIN write_ops :
       LET op == write_ops[i]
           media == OrElseEmpty(get_metadata(op.id, "MEDIA"))
       IN  _is_valid_timestamp(media.timestamp) =>
              /\ op.metadata.timestamp = None
              /\ op.path.dir =
                    get_target_path(Val(media.timestamp), file_of(op.id).name).dir

\* C8: for a file with GPS in both the embedded and the sidecar record, the
\* payload enqueued in write_ops carries no GPS.
C8_GpsNotRewritten ==
    \A i \in DOMAIN write_ops :
       LET op == write_ops[i]
           media == OrElseEmpty(get_metadata(op.id, "MEDIA"))
           json  == OrElseEmpty(get_metadata(op.id, "JSON"))
       IN  (media.gps /= None /\ json.gps /= None) => op.metadata.gps = None

BothUrls(id) ==
    /\ OrElseEmpty(get_metadata(id, "MEDIA")).url /= None
    /\ OrElseEmpty(get_metadata(id, "JSON")).url /= None

\* C9: when both records supply a URL, the MERGED URL is the embedded one and
\* the payload enqueued in write_ops omits the URL.
C9_UrlPriorityAndPayload ==
    /\ \A id \in DOMAIN files :
          (BothUrls(id) /\ <<id, "MERGED">> \in DOMAIN metadata) =>
             metadata[<<id, "MERGED">>].url = metadata[<<id, "MEDIA">>].url
    /\ \A i \in DOMAIN write_ops :
          BothUrls(write_ops[i].id) =>
             to_tags(write_ops[i].metadata, write_ops[i].media_type).url = None

\* local calendar year >= 1999, as seconds: 1999-01-01 00:00:00 local time
OnOrAfter1999(timestamp) == timestamp /= None /\ Val(timestamp) + tz >= 915148800

\* C10: the MERGED timestamp is the embedded one if present and valid (local
\* year >= 1999), else the sidecar one if present and valid, else the mtime.
C10_TimestampPriority ==
    ret /= None =>
       Val(ret).timestamp =
          Some(IF OnOrAfter1999(call.media.timestamp) THEN Val(call.media.timestamp)
               ELSE IF OnOrAfter1999(call.json.timestamp)
                    THEN Val(call.json.timestamp)
                    ELSE call.mtime)

C10_Witness ==
    /\ ret /= None
    /\ tz /= 0
    /\ call.media.timestamp = Some(915148799 - tz)
    /\ call.json.timestamp = Some(915148800 - tz)
    /\ Val(ret).timestamp = call.json.timestamp

\* C11: people merge is three-state, from the sidecar file on: when the
\* sidecar holds a people list the MERGED people are its names, an empty list
\* included; only without a people field do the embedded people apply.
C11_PeopleThreeState ==
    \A id \in DOMAIN files :
       <<id, "MERGED">> \in DOMAIN metadata =>
          LET sidecar == file_of(id).sidecar
              merged  == metadata[<<id, "MERGED">>]
          IN  IF sidecar /= None /\ Val(sidecar).people /= None
              THEN merged.people = Val(sidecar).people
              ELSE merged.people = OrElseEmpty(get_metadata(id, "MEDIA")).people

\* the target of row id exists and its embedded metadata is approximately
\* equal (is_identical) to the row's MERGED record
Materialized(id) ==
    /\ files[id].target_path /= None
    /\ Val(files[id].target_path) \in DOMAIN disk
    /\ <<id, "MERGED">> \in DOMAIN metadata
    /\ is_identical(metadata[<<id, "MERGED">>],
                    disk[Val(files[id].target_path)].tags)

SkippedRowsEndSuccess ==
    \A id \in DOMAIN tasks :
       tasks[id] = "skipped" =>
          /\ \A i \in DOMAIN write_ops : write_ops[i].id /= id
          /\ files[id].status \in {"TARGET_RESOLVED", "SUCCESS"}
          /\ step = "fetch" => files[id].status = "SUCCESS"

SkipDecision ==
    \A id \in DOMAIN tasks \cap DOMAIN tasks' :
       (/\ tasks[id] = "reading"
        /\ tasks'[id] \notin {"reading", "raised"}
        /\ Materialized(id))
       => /\ tasks'[id] = "skipped"
          /\ disk' = disk
          /\ copies' = copies
          /\ write_ops' = write_ops

\* C12: for a TARGET_RESOLVED row whose target exists with embedded metadata
\* approximately equal to its MERGED record, Execution makes no copy and
\* enqueues no tag write, and the row still ends SUCCESS.
C12_SkipMaterialized == []SkippedRowsEndSuccess /\ [][SkipDecision]_vars

C12_Witness ==
    /\ pc = "execution"
    /\ step = "fetch"
    /\ \E id \in DOMAIN tasks :
          /\ tasks[id] = "skipped"
          /\ files[id].status = "SUCCESS"
          /\ Materialized(id)

\* C13: when the computed destination YYYY/MM/filename of a discovered file
\* is already in the destination tree with metadata approximately equal to
\* the file's MERGED record, the pipeline neither copies the file nor gives
\* it a suffixed sibling as target.
C13_PreSeededNotCopied ==
    \A id \in DOMAIN files :
       <<id, "MERGED">> \in DOMAIN metadata =>
          LET merged == metadata[<<id, "MERGED">>]
              dest   == get_target_path(Val(merged.timestamp), file_of(id).name)
          IN  (/\ dest \in DOMAIN disk
               /\ disk[dest].content = PreExisting
               /\ is_identical(merged, disk[dest].tags))
              => /\ files[id].target_path \in {None, Some(dest)}
                 /\ \A p \in DOMAIN disk : disk[p].content /= files[id].source_path

\* a step that records a failure for one row stays in its phase, goes on to
\* the next file of the page (or the next fetch) and touches nothing else
FailureStaysLocal ==
    \A id \in DOMAIN files :
       (files[id].status /= "FAILED" /\ files'[id].status = "FAILED") =>
          /\ pc' = pc
          /\ \A other \in DOMAIN files \ {id} : files'[other] = files[other]
          /\ metadata' = metadata
          /\ disk' = disk
          /\ pc \in {"extraction", "resolution"} =>
                \/ idx' = idx + 1 /\ page' = page
                \/ idx = Len(page) /\ step' = "fetch"
          /\ pc = "execution" => page' = page /\ step' = step

\* C14: a failure while processing one file never keeps the other files of
\* the page, or later pages and phases, from being processed: every
\* invocation that is not killed ends with every row SUCCESS or FAILED.
C14_FailureIsolation ==
    /\ [][FailureStaysLocal]_vars
    /\ \A r \in 1 .. MaxRuns :
          (runs = r) ~> (runs = r /\ pc = "done" /\ AllTerminal)

C14_Witness ==
    /\ pc = "done"
    /\ runs = 1
    /\ batch_size = 2
    /\ Len(files) = 2
    /\ files[1].status = "FAILED"
    /\ files[1].phase = "METADATA_READ"
    /\ files[2].status = "SUCCESS"

OneRowPerPath ==
    \A i, j \in DOMAIN files :
       files[i].source_path = files[j].source_path => i = j

\* add_file for a path that has a row: the id of that row, the table as it was
AddExistingReturnsRow ==
    \A path \in Paths :
       rows_of(files, path) /= {} =>
          /\ add_file(files, path).table = files
          /\ \E i \in DOMAIN files : /\ files[i].source_path = path
                                    /\ add_file(files, path).id = i

\* Discovery walking over a path that has a row
Rediscovery ==
    (/\ pc = "discovery"
     /\ idx \in Paths
     /\ rows_of(files, idx) /= {}
     /\ idx' = idx + 1)
    => /\ files' = files
       /\ metadata' = metadata

\* C15: there is at most one row per source path; add_file for a path that
\* already has a row returns that row's id and leaves its status, phase,
\* target path, error message and metadata records as they are.
C15_SourcePathUnique ==
    /\ [](OneRowPerPath /\ AddExistingReturnsRow)
    /\ [][Rediscovery]_vars

C15_Witness ==
    /\ runs = 2
    /\ pc = "discovery"
    /\ idx = Len(source) + 1
    /\ Len(files) = Len(source)
    /\ \E id \in DOMAIN files :
          /\ files[id].status = "SUCCESS"
          /\ files[id].target_path /= None
          /\ <<id, "MERGED">> \in DOMAIN metadata
    /\ \E id \in DOMAIN files :
          /\ files[id].status = "FAILED"
          /\ files[id].error_message /= None

\* recognized extension (whatever its case) and a stem not ending in -edited
Eligible(path) ==
    LET name == source[path].name IN
    /\ get_media_type(name.suffix).recognized
    /\ name.stem[Len(name.stem)] /= "-edited"

RowPaths == {files[i].source_path : i \in DOMAIN files}

OnlyEligibleEnter ==
    /\ RowPaths \subseteq {path \in Paths : Eligible(path)}
    /\ pc \in {"extraction", "resolution", "execution", "done"} =>
          RowPaths = {path \in Paths : Eligible(path)}
    /\ \A p \in DOMAIN disk : Eligible(disk[p].content)

NewRowIsNew ==
    Len(files') > Len(files) =>
       /\ pc = "discovery"
       /\ files'[Len(files')].status = "NEW"
       /\ files'[Len(files')].phase = "DISCOVERY"
       /\ files'[Len(files')].target_path = None

TagIOCallsInProgress == {id \in DOMAIN tasks : tasks[id] = "reading"}

\* C17: at no time are two calls to the Tag I/O collaborator in progress.
C17_TagIOSerialized == Cardinality(TagIOCallsInProgress) <= 1

DryRunCountsNothing == dry_run => (copies = 0 /\ writes = 0)

DryRunKeepsTree == dry_run' => disk' = disk

\* C18: with the dry-run flag set no run creates a directory, copies a file
\* or changes a modification time under the destination, and none issues a
\* Tag I/O write.
C18_DryRun == []DryRunCountsNothing /\ [][DryRunKeepsTree]_vars

C18_Witness ==
    /\ dry_run
    /\ pc = "execution"
    /\ step = "fetch"
    /\ write_ops /= <<>>
    /\ \E id \in DOMAIN tasks :
          /\ tasks[id] = "dry"
          /\ files[id].status = "SUCCESS"
          /\ Val(files[id].target_path) \notin DOMAIN disk

\* read_metadata_batch is called when, and only when, Extraction has fetched
\* a page, with the rows of that page
ReadWithEveryPage ==
    /\ (reads' /= reads /\ reads' /= <<>>) =>
          /\ pc = "extraction"
          /\ page' /= <<>>
          /\ reads' = Append(reads, Range(page'))
    /\ (pc = "extraction" /\ page' /= page /\ page' /= <<>>) =>
          Len(reads') = Len(reads) + 1

ReadsArePages ==
    /\ \A i \in DOMAIN reads :
          Cardinality(reads[i]) >= 1 /\ Cardinality(reads[i]) <= batch_size
    /\ \A i, j \in DOMAIN reads : i /= j => reads[i] \cap reads[j] = {}

\* the rows that were NEW when Extraction started: all rows in the first
\* invocation, none in a later one (the invocations are not killed)
NewAtExtraction == IF runs = 1 THEN Len(files) ELSE 0

ReadCount ==
    pc \in {"resolution", "execution", "done"} =>
       /\ Len(reads) = (NewAtExtraction + batch_size - 1) \div batch_size
       /\ \A i \in DOMAIN reads : i < Len(reads) => Cardinality(reads[i]) = batch_size
       /\ runs = 1 => UNION {reads[i] : i \in DOMAIN reads} = DOMAIN files

\* C19: in Extraction the Tag I/O batch read is invoked exactly once per
\* page, with all files of the page and at most batch_size of them, so N NEW
\* files with page size B give ceil(N/B) read calls.
C19_BatchedReads == [](ReadsArePages /\ ReadCount) /\ [][ReadWithEveryPage]_vars

C19_Witness ==
    /\ runs = 1
    /\ pc = "resolution"
    /\ batch_size = 2
    /\ Len(files) = 3
    /\ reads = <<{1, 2}, {3}>>

\* the status a phase asks the store for
Precondition(phase) ==
    CASE phase = "extraction" -> "NEW"
      [] phase = "resolution" -> "METADATA_READ"
      [] phase = "execution"  -> "TARGET_RESOLVED"
      [] OTHER                -> "none"

PhaseOrder ==
    pc' /= pc =>
       \/ <<pc, pc'>> \in {<<"idle", "discovery">>, <<"done", "discovery">>,
                           <<"discovery", "extraction">>,
                           <<"extraction", "resolution">>,
                           <<"resolution", "execution">>,
                           <<"execution", "done">>}
       \/ pc \notin {"idle", "done"} /\ pc' = "idle"

Barrier ==
    /\ (pc \in {"resolution", "execution"}) =>
          \A id \in DOMAIN files : files[id].status /= "NEW"
    /\ (pc = "execution") =>
          \A id \in DOMAIN files : files[id].status /= "METADATA_READ"

SelectsPrecondition ==
    /\ (page' /= page /\ page' /= <<>>) =>
          /\ pc' = pc
          /\ \A i \in DOMAIN page' : files[page'[i]].status = Precondition(pc)
    /\ \A id \in DOMAIN files :
          files'[id].status /= files[id].status =>
             /\ files[id].status = Precondition(pc)
             /\ \E i \in DOMAIN page : page[i] = id

\* C20: within a run the phases execute in the order Discovery, Extraction,
\* Resolution, Execution; during Resolution no row is NEW, during Execution
\* no row is NEW or METADATA_READ; a phase fetches, and changes, only rows
\* whose status is its precondition.
C20_PhaseBarrier == []Barrier /\ [][PhaseOrder /\ SelectsPrecondition]_vars

C20_Witness ==
    /\ pc = "execution"
    /\ step = "run"
    /\ batch_size = 1
    /\ Len(files) = 2
    /\ files[page[1]].status = "TARGET_RESOLVED"
    /\ \E id \in DOMAIN files : id /= page[1] /\ files[id].status = "TARGET_RESOLVED"

\* what a capped probe would return when it gives up
CollisionExhausted == [error |-> "CollisionResolutionExhaustion"]

AllTaken(cap) ==
    \A k \in 0 .. cap : Numbered(call.target_path, k) \in call.existing

\* C21: collision probing is capped: for some cap, resolve_collision on a
\* directory where the name and every probed name name_1 .. name_cap exist
\* ends with the collision-exhaustion error instead of probing further.
C21_CollisionCapped ==
    \E cap \in 1 .. MaxProbed :
       (call.fn = "resolve_collision" /\ ret /= None /\ AllTaken(cap)) =>
          DOMAIN Val(ret) = DOMAIN CollisionExhausted

HasMerged(table, id) == <<id, "MERGED">> \in DOMAIN table

\* a MERGED record stays, with the value it has
MergedNeverChanges ==
    \A id \in DOMAIN files :
       HasMerged(metadata, id) =>
          /\ HasMerged(metadata', id)
          /\ metadata'[<<id, "MERGED">>] = metadata[<<id, "MERGED">>]

\* a MERGED record appears only by Resolution's save, and Resolution saves
\* it only for a row that has none yet
MergedWrittenOnce ==
    /\ \A id \in DOMAIN files' :
          (HasMerged(metadata', id) /\ ~HasMerged(metadata, id)) =>
             pc = "resolution" /\ step = "merge" /\ page[idx] = id
    /\ (pc = "resolution" /\ step = "merge" /\ step' = "target") =>
          ~HasMerged(metadata, page[idx])

\* C22: for each file the MERGED record is written exactly once, by
\* Resolution, and its value never changes afterwards, over any sequence of
\* runs, interruptions and re-runs on the same store.
C22_MergedOnce == [][MergedNeverChanges /\ MergedWrittenOnce]_vars

\* C23: in no persisted state, the one left behind by an interruption
\* included, does a row have a MERGED record or a target_path while its
\* status is still METADATA_READ: Resolution's result and the status advance
\* become persistent together.
C23_ResolutionTransactional ==
    \A id \in DOMAIN files :
       files[id].status = "METADATA_READ" =>
          /\ ~HasMerged(metadata, id)
          /\ files[id].target_path = None

\* C24: a failure of the persistence layer in any phase (add_file,
\* save_metadata, update_target_path or update_status raising) propagates
\* and ends the run: it is never swallowed and never turned into a skipped
\* file or a FAILED row.
C24_StoreFailureAborts ==
    [][StoreFailure => (pc' = "idle" /\ files' = files)]_vars

HasRecord(id, src) == <<id, src>> \in DOMAIN metadata

\* the page being extracted is one whose batch read failed
ReadBatchFailed == pc = "extraction" /\ page /= <<>> /\ media_map = {}

NoEmbeddedAfterFailure ==
    ReadBatchFailed => \A i \in DOMAIN page : ~HasRecord(page[i], "MEDIA")

\* on such a page the embedded step saves nothing and fails no row, and the
\* status step moves the row to METADATA_READ
FailedBatchStillAdvances ==
    ReadBatchFailed =>
       /\ step = "media" => step' = "json" /\ files' = files /\ metadata' = metadata
       /\ step = "status" => files'[page[idx]].status = "METADATA_READ"

FallsThrough ==
    \A id \in DOMAIN files :
       (HasRecord(id, "MERGED") /\ ~HasRecord(id, "MEDIA")) =>
          LET json == OrElseEmpty(get_metadata(id, "JSON")) IN
          metadata[<<id, "MERGED">>].timestamp =
             IF _is_valid_timestamp(json.timestamp) THEN json.timestamp
             ELSE Some(file_of(id).mtime)

HasMalformedSidecar(id) ==
    /\ file_of(id).sidecar /= None
    /\ ~IsJson(Val(file_of(id).sidecar))

MalformedGivesEmpty ==
    \A id \in DOMAIN files :
       (HasMalformedSidecar(id) /\ HasRecord(id, "JSON")) =>
          metadata[<<id, "JSON">>] = EmptyMetadata

\* no row is failed with the parse error of its sidecar
ParseErrorNeverRecorded ==
    \A id \in DOMAIN files : files[id].error_message /= Some(JSONDecodeError)

\* parsing the malformed sidecar of the current row saves the record, fails
\* nothing and leaves the row to the status update, which makes it
\* METADATA_READ; the run stays in Extraction
MalformedStillAdvances ==
    (pc = "extraction" /\ pc' = pc /\ page /= <<>> /\ idx \in DOMAIN page
       /\ HasMalformedSidecar(page[idx])) =>
       /\ (step = "json" /\ step' = "status") =>
             /\ HasRecord(page[idx], "JSON")'
             /\ files' = files
       /\ step = "status" => files'[page[idx]].status = "METADATA_READ"

Supplemental == <<".supplemental-metadata", JSON>>

\* the forms (a), (b), (c) of the priority list on a given stem
ExactForm(stem, suffix)  == stem \o <<suffix, JSON>>
LegacyForm(stem)         == stem \o <<JSON>>
SupplementalForms(stem, suffix) ==
    {stem \o <<suffix>> \o Supplemental, stem \o Supplemental}

\* the place of a directory entry in the fixed priority order for a media
\* file: 1 (a) .. 7 (f, prefix match), 8 (f, the rest); 0 when it is no
\* candidate
PriorityClass(name, media) ==
    LET stem     == media.stem
        edited   == endswith(stem, "-edited")
        counted  == stem /= <<>> /\ stem[Len(stem)] \in CounterPieces
        stripped == SubSeq(stem, 1, Len(stem) - 1)
    IN  IF name = ExactForm(stem, media.suffix) THEN 1
        ELSE IF name = LegacyForm(stem) THEN 2
        ELSE IF name \in SupplementalForms(stem, media.suffix) THEN 3
        ELSE IF edited /\ name \in {ExactForm(stripped, media.suffix),
                                    LegacyForm(stripped)}
                                   \cup SupplementalForms(stripped, media.suffix)
             THEN 4
        ELSE IF counted /\ name = stripped \o <<media.suffix, stem[Len(stem)], JSON>>
             THEN 5
        ELSE IF globmatch(name, stem) \/ (edited /\ globmatch(name, stripped))
             THEN IF score_candidate(name, stem \o <<media.suffix>>, stem) = 2
                  THEN 7 ELSE 8
        ELSE 0

\* C27: among the candidate sidecars that exist in the directory, the
\* matcher returns one that comes first in the order (a) exact, (b) legacy,
\* (c) supplemental-metadata forms, (d) those forms on the stem without the
\* edited marker, (e) the transposed duplicate form, (f) other glob matches
\* by specificity; it returns none when no candidate exists.
C27_SidecarPriority ==
    (call.fn = "_find_json_sidecar" /\ ret /= None) =>
       LET found == Val(ret)
           present == {call.listing[i] : i \in DOMAIN call.listing}
           candidates == {n \in present : PriorityClass(n, call.media) /= 0}
       IN  IF candidates = {} THEN found = None
           ELSE /\ found /= None
                /\ Val(found) \in candidates
                /\ \A n \in candidates :
                      PriorityClass(Val(found), call.media)
                         <= PriorityClass(n, call.media)

\* the orders in which a directory can list the entries of `listing`
Reorderings(listing) ==
    {[i \in DOMAIN listing |-> listing[p[i]]] :
        p \in {q \in [DOMAIN listing -> DOMAIN listing] :
                  \A i, j \in DOMAIN listing : i /= j => q[i] /= q[j]}}

\* C28: for a fixed set of files in the media file's directory the matcher
\* returns the same sidecar whatever order the directory listing enumerates
\* them in, also when several candidates have the same specificity score.
C28_SidecarDeterministic ==
    (call.fn = "_find_json_sidecar" /\ ret /= None) =>
       \A other \in Reorderings(call.listing) :
          _find_json_sidecar(call.media, other) = Val(ret)

\* the spellings of the motion-photo extension
MotionSuffixes == {".mp", ".MP", ".Mp", ".mP"}

\* C29: a source file name whose extension is .mp in any letter case gets,
\* for every timestamp, the target name with the same stem and extension
\* .mp4; no target ends in .mp; every other file name is kept verbatim.
C29_MotionPhotoRename ==
    (call.fn = "get_target_path" /\ ret /= None) =>
       LET target == Val(ret) IN
       /\ target.stem = Join(call.name.stem)
       /\ target.suffix = IF call.name.suffix \in MotionSuffixes THEN ".mp4"
                          ELSE call.name.suffix
       /\ target.suffix \notin MotionSuffixes

C29_Witness ==
    /\ call.fn = "get_target_path"
    /\ call.name = [stem |-> <<"motion">>, suffix |-> ".MP"]
    /\ call.timestamp = 631195200
    /\ ret = Some([dir |-> "1990/01", stem |-> "motion", suffix |-> ".mp4"])

AtZero(gps) == gps /= None /\ Val(gps).latitude = 0 /\ Val(gps).longitude = 0

\* C30: the (0,0) GPS sentinel is never materialized: no record produced by
\* sidecar parsing or by tag parsing, and so no merged record, has a GPS
\* with latitude 0 and longitude 0; such input yields GPS absent.
C30_NoZeroGps ==
    (call.fn = "gps" /\ ret /= None) =>
       LET r == Val(ret) IN
       /\ ~AtZero(r.media.gps)
       /\ ~AtZero(r.json.gps)
       /\ r.merged /= None => ~AtZero(Val(r.merged).gps)
       /\ AtZero(call.sidecar.geoData) => r.json.gps = None
       /\ call.tags \in ZeroTagSamples => r.media.gps = None

C30_Witness ==
    /\ call.fn = "gps"
    /\ call.tags = <<Tag("GPSCoordinates", Nums(<<0, 0, 12>>))>>
    /\ AtZero(call.sidecar.geoData)
    /\ ret /= None
    /\ Val(ret).merged /= None
    /\ Val(Val(ret).merged).gps = None

\* the ProcessingPhase value of the phase the pipeline is in
PhaseOf(position) ==
    CASE position = "discovery"  -> "DISCOVERY"
      [] position = "extraction" -> "METADATA_READ"
      [] position = "resolution" -> "RESOLUTION"
      [] position = "execution"  -> "EXECUTION"
      [] OTHER                   -> "none"

RowConsistent(row) ==
    CASE row.status = "NEW"             -> row.phase = "DISCOVERY"
      [] row.status = "METADATA_READ"   -> row.phase = "METADATA_READ"
      [] row.status = "TARGET_RESOLVED" -> row.phase = "RESOLUTION"
      [] row.status = "SUCCESS"         -> row.phase = "EXECUTION"
                                           /\ row.error_message = None
      [] row.status = "FAILED"          ->
             /\ row.phase \in {"METADATA_READ", "RESOLUTION", "EXECUTION"}
             /\ row.error_message /= None
      [] OTHER                          -> FALSE

AllRowsConsistent == \A id \in DOMAIN files : RowConsistent(files[id])

\* a row that becomes FAILED records the phase the pipeline is in
FailureRecordsItsPhase ==
    \A id \in DOMAIN files :
       (files[id].status /= "FAILED" /\ files'[id].status = "FAILED") =>
          files'[id].phase = PhaseOf(pc)

\* C31: in every reachable state, under any interleaving of the worker
\* tasks and the scheduler, each row's status, phase and error message are
\* consistent: NEW/DISCOVERY, METADATA_READ/METADATA_READ,
\* TARGET_RESOLVED/RESOLUTION, SUCCESS/EXECUTION without error message,
\* FAILED with the phase of the failure and an error message.
C31_RowConsistency == []AllRowsConsistent /\ [][FailureRecordsItsPhase]_vars

C31_Witness ==
    /\ pc = "execution"
    /\ step = "run"
    /\ \E a, b \in DOMAIN tasks :
          /\ a /= b
          /\ tasks[a] = "copy"
          /\ files[a].status = "TARGET_RESOLVED"
          /\ files[b].status = "FAILED"
          /\ files[b].phase = "EXECUTION"

\* the rows a phase has still to take
Pending(table, position) ==
    {id \in DOMAIN table : table[id].status = Precondition(position)}

\* when a phase is done with a page, every row of the page has left the
\* phase's precondition status, so fewer rows are left for the next fetch
PageDrained ==
    (pc \in {"extraction", "resolution", "execution"} /\ pc' = pc
       /\ page /= <<>> /\ page' = <<>>) =>
       /\ \A i \in DOMAIN page : files'[page[i]].status /= Precondition(pc)
       /\ \A i \in DOMAIN page :
             files'[page[i]].status \in {"METADATA_READ", "TARGET_RESOLVED",
                                         "SUCCESS", "FAILED"}

\* a fetched page is never empty of work: it holds pending rows only
PageIsPending ==
    (pc \in {"extraction", "resolution", "execution"} /\ page = <<>> /\ page' /= <<>>) =>
       /\ Len(page') >= 1
       /\ Range(page') \subseteq Pending(files, pc)

NothingLeftWhenDone ==
    pc = "done" =>
       \A id \in DOMAIN files :
          files[id].status \notin {"NEW", "METADATA_READ", "TARGET_RESOLVED"}

\* C32: with finitely many rows and a page size >= 1 each phase's paging
\* loop terminates, because every row of a page has left the phase's
\* precondition status before the next page is fetched; so every run
\* completes, with no row left NEW, METADATA_READ or TARGET_RESOLVED.
C32_PhaseTermination ==
    /\ [][PageDrained /\ PageIsPending]_vars
    /\ []NothingLeftWhenDone
    /\ (pc = "extraction") ~> (pc = "resolution")
    /\ (pc = "resolution") ~> (pc = "execution")
    /\ (pc = "execution") ~> (pc = "done")

C32_Witness ==
    /\ pc = "done"
    /\ runs = 1
    /\ batch_size = 1
    /\ Len(files) = 2
    /\ Len(reads) = 2
    /\ \A id \in DOMAIN files : files[id].status = "SUCCESS"

\* the step in which write_metadata_batch is called with tags to write
WriteBatchIssued == writes' /= writes /\ writes' /= 0

\* C33: in each Execution page of a non-dry run the tag-write batch is
\* issued at most once, only after every worker task of the page has
\* completed, and every file in the batch was copied to its target earlier
\* in the same page: no tag write is issued for a target that was skipped as
\* already materialized or whose copy did not happen.
C33_WriteBatchOrdering ==
    [][WriteBatchIssued =>
          /\ ~dry_run
          /\ pc = "execution" /\ step = "run" /\ step' = "sweep"
          /\ \A id \in DOMAIN tasks : tasks[id] \in Finished
          /\ \A i \in valid_ops(write_ops) :
                /\ write_ops[i].id \in DOMAIN tasks
                /\ tasks[write_ops[i].id] = "copied"]_vars

\* C34: resolve_collision(p) returns p unchanged when p does not exist;
\* otherwise it returns stem_k.ext in the same directory for the smallest
\* k >= 1 such that stem_k.ext does not exist; the path it returns does not
\* exist when it returns.
C34_ResolveCollision ==
    (call.fn = "resolve_collision" /\ ret /= None) =>
       LET p == call.target_path
           result == Val(ret)
       IN  /\ p \notin call.existing => result = p
           /\ p \in call.existing =>
                 \E k \in 1 .. MaxProbed + 1 :
                    /\ result = [dir |-> p.dir,
                                 stem |-> p.stem \o "_" \o ToString(k),
                                 suffix |-> p.suffix]
                    /\ \A j \in 1 .. k - 1 : Numbered(p, j) \in call.existing
           /\ result \notin call.existing

C34_Witness ==
    /\ call.fn = "resolve_collision"
    /\ call.existing = {CollisionTarget, Numbered(CollisionTarget, 1),
                        Numbered(CollisionTarget, 3)}
    /\ ret = Some([dir |-> "2021/01", stem |-> "photo_2", suffix |-> ".jpg"])

\* both absent, or both present and related by `close`
BothOrNeither(a, b, close(_, _)) ==
    \/ a = None /\ b = None
    \/ a /= None /\ b /= None /\ close(Val(a), Val(b))

\* one list is a reordering of the other
Reordered(p, q) ==
    /\ Len(p) = Len(q)
    /\ \E f \in [DOMAIN p -> DOMAIN q] :
          /\ \A i, j \in DOMAIN p : i /= j => f[i] /= f[j]
          /\ \A i \in DOMAIN p : p[i] = q[f[i]]

Within(d, x, y) == x - y <= d /\ y - x <= d

Resolved(row) == row.status \in {"TARGET_RESOLVED", "SUCCESS"}

\* C36: in every state of the store, the one an interruption leaves
\* included, every row with status TARGET_RESOLVED or SUCCESS has a target
\* path and a MERGED metadata record.
C36_ResolvedRowsComplete ==
    \A id \in DOMAIN files :
       Resolved(files[id]) =>
          /\ files[id].target_path /= None
          /\ HasMerged(metadata, id)

\* an interrupted invocation left a resolved row and an unresolved one
C36_Witness ==
    /\ pc = "idle"
    /\ runs >= 1
    /\ \E id \in DOMAIN files : Resolved(files[id])
    /\ \E id \in DOMAIN files : files[id].status = "METADATA_READ"

\* a copy never replaces the bytes another row's copy left at a path
NoOverwriteByOtherRow ==
    \A p \in DOMAIN disk :
       (p \in DOMAIN disk' /\ ~ dry_run) =>
          disk'[p].content = disk[p].content

\* no two workers are copying to the same destination
NoSharedDestination ==
    \A i, j \in DOMAIN tasks :
       (i /= j /\ tasks[i] = "copy" /\ tasks[j] = "copy" /\ ~ dry_run) =>
          files[i].target_path /= files[j].target_path

\* at the end of a run the target of a SUCCESS row, where it was copied,
\* holds the row's own source
TargetsHoldOwnSource ==
    (pc = "done" /\ ~ dry_run) =>
       \A id \in DOMAIN files :
          (/\ files[id].status = "SUCCESS"
           /\ Val(files[id].target_path) \in DOMAIN disk) =>
             disk[Val(files[id].target_path)].content = files[id].source_path

\* C37: in a non-dry run, for any interleaving of the workers, a destination
\* file written for one row is never overwritten by the copy of another
\* row, no two workers copy to the same destination path, and at the end
\* of the run the target of every SUCCESS row holds the bytes of the row's
\* own source file.
C37_NoOverwrite ==
    /\ [][NoOverwriteByOtherRow]_vars
    /\ [](NoSharedDestination /\ TargetsHoldOwnSource)

\* the first invocation was a dry run and has ended
DryRunEnded == pc = "done" /\ dry_run /\ runs = 1

\* the second invocation was a real run and has ended
RealRunEnded == pc = "done" /\ ~ dry_run /\ runs = 2

\* every discovered file was copied to its target, and tags were written
EveryFileMaterialized ==
    /\ copies = Len(files)
    /\ \A id \in DOMAIN files :
          /\ files[id].target_path /= None
          /\ Val(files[id].target_path) \in DOMAIN disk
    /\ writes > 0

\* C38: after a dry-run invocation on a durable store, a following real
\* invocation on the same store and the same source still copies every
\* discovered file to its target and issues its tag writes.
C38_DryRunLeavesWorkToDo ==
    [](DryRunEnded => [](RealRunEnded => EveryFileMaterialized))

\* the row's target holds a copy of the row's source
HoldsOwnCopy(id) ==
    /\ files[id].target_path /= None
    /\ Val(files[id].target_path) \in DOMAIN disk
    /\ disk[Val(files[id].target_path)].content = files[id].source_path

\* a target path that has been used for a copy stays the row's target path
TargetKept ==
    \A id \in DOMAIN files :
       HoldsOwnCopy(id) => files'[id].target_path = files[id].target_path

\* no source has copies at two destination paths
OneDestinationPerSource ==
    \A p, q \in DOMAIN disk :
       disk[p].content = disk[q].content => p = q

\* C39: across interrupted invocations and re-runs on the same store, each
\* source file is materialized at no more than one destination path: a
\* target path that was used for a copy is never changed, and a resume makes
\* no second copy of a source under another name.
C39_OneDestination == []OneDestinationPerSource /\ [][TargetKept]_vars

\* a resumed invocation found the copy its killed predecessor had made
C39_Witness ==
    /\ runs = 2
    /\ first_complete /= 1
    /\ \E id \in DOMAIN tasks : tasks[id] = "skipped" /\ HoldsOwnCopy(id)

\* the media files a listing holds besides `media`
OtherMedia(media, listing) ==
    {listing[i] : i \in DOMAIN listing} \cap
       ({<<"photo", ".png">>} \ {media.stem \o <<media.suffix>>})

\* C40: for a media file A the matcher never returns the exact-form sidecar
\* (full name + ".json") of a different media file B of the same directory;
\* for image.jpg without a sidecar of its own it does not return
\* image.png.json.
C40_NoForeignSidecar ==
    (call.fn = "_find_json_sidecar" /\ ret /= None) =>
       \A other \in OtherMedia(call.media, call.listing) :
          Val(ret) /= Some(other \o <<JSON>>)

====
